---- MODULE Spec2Model ----
(***************************************************************************)
(* Model of tools/build_addon_package.py: the packaging tool that          *)
(* validates manifest.json, selects the git-tracked files and writes and   *)
(* verifies the addon zip archive.                                         *)
(*                                                                         *)
(* Text is modelled as a sequence of one-character strings, so that        *)
(* str.strip, str.splitlines, str.startswith and the code-point order used *)
(* by sorted() are computed, not assumed.                                  *)
(***************************************************************************)
EXTENDS Integers, Sequences, FiniteSets, TLC

VARIABLES
    pc,         \* position of the run inside main / build
    data,       \* validate_manifest: the parsed manifest.json, or NoData
    git_out,    \* tracked_files: the text printed by `git ls-files`, or NoOutput
    files,      \* build: the list returned by tracked_files
    parent_dir, \* whether out_path.parent exists
    archive,    \* the file at out_path
    zf,         \* the ZipFile handle of build: "closed", "w" or "r"
    names,      \* build: set(zf.namelist()) read back from the archive
    idx,        \* build: the position in `files` of the next file to write
    exit_msg,   \* the SystemExit raised, or NoExit
    os_error,   \* TRUE when an OSError escaped the run (environment error)
    stdout      \* the lines printed

vars == <<pc, data, git_out, files, parent_dir, archive, zf, names, idx,
          exit_msg, os_error, stdout>>

(***************************************************************************)
(* Bounds of the model.                                                    *)
(***************************************************************************)
\* the longest `git ls-files` listing, in lines
MaxLines == 4
\* the number of keys of the valid base manifest that an input may alter
MaxEdits == 2

(***************************************************************************)
(* Text.                                                                   *)
(***************************************************************************)
\* Unicode code points of the characters the model uses
CodePoint ==
    ("\t" :> 9) @@ ("\n" :> 10) @@ (" " :> 32) @@ ("-" :> 45) @@ ("." :> 46) @@
    ("/" :> 47) @@ ("0" :> 48) @@ ("2" :> 50) @@ ("A" :> 65) @@ ("B" :> 66) @@
    ("P" :> 80) @@ ("_" :> 95) @@
    ("a" :> 97) @@ ("b" :> 98) @@ ("c" :> 99) @@ ("d" :> 100) @@ ("e" :> 101) @@
    ("f" :> 102) @@ ("g" :> 103) @@ ("h" :> 104) @@ ("i" :> 105) @@ ("j" :> 106) @@
    ("k" :> 107) @@ ("l" :> 108) @@ ("m" :> 109) @@ ("n" :> 110) @@ ("o" :> 111) @@
    ("p" :> 112) @@ ("q" :> 113) @@ ("r" :> 114) @@ ("s" :> 115) @@ ("t" :> 116) @@
    ("u" :> 117) @@ ("v" :> 118) @@ ("w" :> 119) @@ ("x" :> 120) @@ ("y" :> 121) @@
    ("z" :> 122)

\* the characters str.strip() removes
Whitespace == {" ", "\t", "\n"}

\* the least element of a non-empty set of integers
Min(S) == CHOOSE i \in S : \A j \in S : i <= j

\* str < str of Python: lexicographic by code point, a proper prefix first
StrLess(a, b) ==
    LET n      == IF Len(a) < Len(b) THEN Len(a) ELSE Len(b)
        differ == {i \in 1..n : a[i] # b[i]}
    IN  IF differ = {} THEN Len(a) < Len(b)
        ELSE CodePoint[a[Min(differ)]] < CodePoint[b[Min(differ)]]

\* str.startswith(prefix)
StartsWith(s, prefix) ==
    /\ Len(prefix) <= Len(s)
    /\ SubSeq(s, 1, Len(prefix)) = prefix

\* str.strip(): drop leading and trailing whitespace
Strip(s) ==
    LET inner == {i \in 1..Len(s) : s[i] \notin Whitespace}
    IN  IF inner = {} THEN <<>>
        ELSE SubSeq(s, Min(inner), CHOOSE i \in inner : \A j \in inner : j <= i)

\* str.splitlines() of text whose only line boundary is "\n" (text=True):
\* the lines of s from position start on
RECURSIVE SplitFrom(_, _)
SplitFrom(s, start) ==
    IF start > Len(s) THEN <<>>
    ELSE LET breaks == {i \in start..Len(s) : s[i] = "\n"}
         IN  IF breaks = {} THEN <<SubSeq(s, start, Len(s))>>
             ELSE <<SubSeq(s, start, Min(breaks) - 1)>>
                  \o SplitFrom(s, Min(breaks) + 1)

SplitLines(s) == SplitFrom(s, 1)

\* the elements of a sequence
Range(s) == {s[i] : i \in 1..Len(s)}

\* sorted(S) for a set of strings or a set of paths
RECURSIVE Sorted(_)
Sorted(S) ==
    IF S = {} THEN <<>>
    ELSE LET least == CHOOSE x \in S : \A y \in S \ {x} : StrLess(x, y)
         IN  <<least>> \o Sorted(S \ {least})

(***************************************************************************)
(* tracked_files                                                           *)
(***************************************************************************)
manifest_json == <<"m", "a", "n", "i", "f", "e", "s", "t", ".", "j", "s", "o", "n">>
meta_json     == <<"m", "e", "t", "a", ".", "j", "s", "o", "n">>
init_py       == <<"_", "_", "i", "n", "i", "t", "_", "_", ".", "p", "y">>
tool_py       ==
    <<"t", "o", "o", "l", "s", "/", "b", "u", "i", "l", "d", "_", "a", "d", "d", "o", "n", "_", "p", "a", "c", "k", "a", "g", "e", ".", "p", "y">>

excluded_prefixes ==
    << <<".", "g", "i", "t", "h", "u", "b", "/">>,
       <<"s", "c", "r", "e", "e", "n", "s", "h", "o", "t", "s", "/">>,
       <<"a", "d", "s", "/">>,
       <<"d", "i", "s", "t", "/">> >>

excluded_files == {tool_py}

required_files == {manifest_json, meta_json, init_py}

\* files = [line.strip() for line in out.splitlines() if line.strip()]
ListedFiles(out) ==
    LET lines == SplitLines(out)
        kept  == SelectSeq(lines, LAMBDA line : Strip(line) # <<>>)
    IN  [i \in 1..Len(kept) |-> Strip(kept[i])]

\* file.startswith(excluded_prefixes), a tuple of prefixes
StartsWithAny(file, prefixes) ==
    \E i \in 1..Len(prefixes) : StartsWith(file, prefixes[i])

\* Excluded without the test against excluded_files
ExcludedPrefixOnly(file) == StartsWithAny(file, excluded_prefixes)

\* the two `continue` tests of the selection loop
Excluded(file) ==
    \/ file \in excluded_files
    \/ StartsWithAny(file, excluded_prefixes)

\* the loop that fills `keep`
Keep(listed) == SelectSeq(listed, LAMBDA file : ~Excluded(file))

\* MissingRequired that never finds a required file missing
MissingRequiredNone(keep_set) == <<>>

\* missing = sorted(required - keep_set)
MissingRequired(keep_set) == Sorted(required_files \ keep_set)

\* SelectedList that returns `keep` as the loop filled it
SelectedListUnsorted(keep) == keep

\* return sorted(keep_set)
SelectedList(keep) == Sorted(Range(keep))

NoExit == [text |-> "", names |-> <<>>]

\* SystemExit(f"{text}{', '.join(names)}")
SystemExit(text, joined) == [text |-> text, names |-> joined]

\* tracked_files on the text `git ls-files` printed: the SystemExit it
\* raises (NoExit when it returns) and the list it returns
tracked_files(out) ==
    LET keep    == Keep(ListedFiles(out))
        missing == MissingRequired(Range(keep))
    IN  IF missing # <<>>
        THEN [exit  |-> SystemExit("Missing required package files: ", missing),
              value |-> <<>>]
        ELSE [exit |-> NoExit, value |-> SelectedList(keep)]

(***************************************************************************)
(* validate_manifest                                                       *)
(***************************************************************************)
\* A JSON value as json.loads returns it: t is its Python type, n the number
\* an int, float or bool holds (True is 1 and False is 0), s the text of a str.
JInt(n)   == [t |-> "int",   n |-> n, s |-> <<>>]
JFloat(n) == [t |-> "float", n |-> n, s |-> <<>>]
JBool(b)  == [t |-> "bool",  n |-> IF b THEN 1 ELSE 0, s |-> <<>>]
JStr(s)   == [t |-> "str",   n |-> 0, s |-> s]
JNull     == [t |-> "NoneType", n |-> 0, s |-> <<>>]
JList     == [t |-> "list",  n |-> 0, s |-> <<>>]
JDict     == [t |-> "dict",  n |-> 0, s |-> <<>>]

required_keys ==
    <<"package", "name", "mod", "conflicts", "min_point_version",
      "max_point_version", "branch_index">>

int_keys == <<"mod", "min_point_version", "max_point_version", "branch_index">>

\* isinstance(v, int): bool is a subclass of int
IsInstanceInt(v) == v.t \in {"int", "bool"}

\* isinstance(v, str)
IsInstanceStr(v) == v.t = "str"

\* isinstance(v, list)
IsInstanceList(v) == v.t = "list"

\* not isinstance(v, str) or not v.strip()
NotNonEmptyStr(v) == ~IsInstanceStr(v) \/ Strip(v.s) = <<>>

\* MissingKeys that stops at the first missing key
MissingKeysFirst(d) ==
    LET all == SelectSeq(required_keys, LAMBDA key : key \notin DOMAIN d)
    IN  IF all = <<>> THEN <<>> ELSE <<all[1]>>

\* missing = [key for key in required_keys if key not in data]
MissingKeys(d) == SelectSeq(required_keys, LAMBDA key : key \notin DOMAIN d)

\* the keys, in the order of int_keys, that fail the isinstance test
NonIntKeys(d) == SelectSeq(int_keys, LAMBDA key : ~IsInstanceInt(d[key]))

\* ModNotPositive with < in place of <=
ModNegative(d) == d["mod"].n < 0

\* data["mod"] <= 0
ModNotPositive(d) == d["mod"].n <= 0

\* data["min_point_version"] > data["max_point_version"]
MinAboveMax(d) == d["min_point_version"].n > d["max_point_version"].n

\* validate_manifest on the parsed manifest: the SystemExit it raises, or
\* NoExit when it returns
validate_manifest(d) ==
    IF MissingKeys(d) # <<>>
    THEN SystemExit("manifest.json missing required keys: ", MissingKeys(d))
    ELSE IF NotNonEmptyStr(d["package"])
    THEN SystemExit("manifest.json: 'package' must be a non-empty string", <<>>)
    ELSE IF NotNonEmptyStr(d["name"])
    THEN SystemExit("manifest.json: 'name' must be a non-empty string", <<>>)
    ELSE IF ~IsInstanceList(d["conflicts"])
    THEN SystemExit("manifest.json: 'conflicts' must be a list", <<>>)
    ELSE IF NonIntKeys(d) # <<>>
    THEN SystemExit("manifest.json: '" \o NonIntKeys(d)[1] \o "' must be an integer",
                    <<>>)
    ELSE IF ModNotPositive(d)
    THEN SystemExit("manifest.json: 'mod' must be > 0", <<>>)
    ELSE IF MinAboveMax(d)
    THEN SystemExit("manifest.json: min_point_version must be <= max_point_version",
                    <<>>)
    ELSE NoExit

(***************************************************************************)
(* Inputs.                                                                 *)
(***************************************************************************)
\* the JSON values an edited manifest key may hold
JValues ==
    {JInt(n) : n \in -1..3} \cup {JFloat(1), JBool(TRUE), JBool(FALSE), JNull,
     JList, JDict, JStr(<<>>), JStr(<<" ">>), JStr(<<"p">>)}

\* a valid manifest
BaseManifest ==
    [key \in Range(required_keys) |->
        CASE key = "package"           -> JStr(<<"p">>)
          [] key = "name"              -> JStr(<<"P">>)
          [] key = "mod"               -> JInt(1)
          [] key = "conflicts"         -> JList
          [] key = "min_point_version" -> JInt(1)
          [] key = "max_point_version" -> JInt(2)
          [] key = "branch_index"      -> JInt(0)]

\* marks a key an edit removes
Absent == [t |-> "absent", n |-> 0, s |-> <<>>]

\* BaseManifest with the keys of DOMAIN edit replaced or removed
Edited(edit) ==
    [key \in {k \in DOMAIN BaseManifest :
                 k \notin DOMAIN edit \/ edit[k] # Absent} |->
        IF key \in DOMAIN edit THEN edit[key] ELSE BaseManifest[key]]

\* the sets of keys an input manifest alters: at most MaxEdits keys
EditedKeys == {K \in SUBSET DOMAIN BaseManifest : Cardinality(K) <= MaxEdits}

\* the alterations of the keys K: each gets a value of JValues or is removed
Edits(K) == [K -> JValues \cup {Absent}]

\* the lines `git ls-files` may print: the required files, the tool itself,
\* one more file (also padded with a blank), a blank line, and a file under
\* each excluded directory
ListingLines ==
    {manifest_json, meta_json, init_py, tool_py,
     <<"a", "d", "s", ".", "p", "y">>,
     <<"a", "d", "s", ".", "p", "y", " ">>,
     <<" ">>,
     <<"d", "i", "s", "t", "/", "a">>,
     <<"a", "d", "s", "/", "b">>,
     <<".", "g", "i", "t", "h", "u", "b", "/", "c">>,
     <<"s", "c", "r", "e", "e", "n", "s", "h", "o", "t", "s", "/", "d">>}

\* `lines`, each ended by a newline
RECURSIVE JoinLines(_)
JoinLines(lines) ==
    IF lines = <<>> THEN <<>>
    ELSE Head(lines) \o <<"\n">> \o JoinLines(Tail(lines))

\* the line sequences `git ls-files` may print: n lines, n <= MaxLines
Listing(n) == [1..n -> ListingLines]

NoData == [none |-> JNull]
NoOutput == <<"not run">>
NoArchive == [exists |-> FALSE, entries |-> <<>>, fresh |-> FALSE]
\* an archive an earlier run left at out_path
OldArchive == [exists |-> TRUE, entries |-> <<meta_json>>, fresh |-> FALSE]

(***************************************************************************)
(* main and build                                                          *)
(***************************************************************************)
DEFAULT_OUT == "dist/Beautify-Anki_2.0-addon.zip"

\* the entries checked after the archive is read back, in the order checked
verified_entries == <<manifest_json, meta_json, init_py>>

\* zf_write that writes the required files only
zf_write_required_only(entries, rel) ==
    IF rel \in required_files THEN Append(entries, rel) ELSE entries

\* zf.write(ROOT / rel, arcname=rel): one more entry, named rel
zf_write(entries, rel) == Append(entries, rel)

\* f"Created {out_path} ({len(files)} files)"
CreatedLine(out_path, selected) ==
    "Created " \o out_path \o " (" \o ToString(Len(selected)) \o " files)"

Init ==
    /\ pc = "main"
    /\ data = NoData
    /\ git_out = NoOutput
    /\ files = <<>>
    /\ parent_dir \in BOOLEAN
    /\ archive \in IF parent_dir THEN {NoArchive, OldArchive} ELSE {NoArchive}
    /\ zf = "closed"
    /\ names = {}
    /\ idx = 1
    /\ exit_msg = NoExit
    /\ os_error = FALSE
    /\ stdout = <<>>

\* main: validate_manifest() on the manifest.json it reads
ValidateManifest ==
    /\ pc = "main"
    /\ \E K \in EditedKeys : \E edit \in Edits(K) :
          LET d      == Edited(edit)
              raised == validate_manifest(d)
          IN  /\ data' = d
              /\ exit_msg' = raised
              /\ pc' = IF raised = NoExit THEN "validated" ELSE "exit"
    /\ UNCHANGED <<git_out, files, parent_dir, archive, zf, names, idx, os_error,
                   stdout>>

\* build: out_path.parent.mkdir(parents=True, exist_ok=True); the manifest
\* validate_manifest held is gone
Mkdir ==
    /\ pc = "validated"
    /\ parent_dir' = TRUE
    /\ data' = NoData
    /\ pc' = "select"
    /\ UNCHANGED <<git_out, files, archive, zf, names, idx, exit_msg, os_error,
                   stdout>>

\* build: files = tracked_files(), on the text git prints
TrackedFiles ==
    /\ pc = "select"
    /\ \E n \in 0..MaxLines : \E lines \in Listing(n) :
          LET out    == JoinLines(lines)
              result == tracked_files(out)
          IN  /\ git_out' = out
              /\ files' = result.value
              /\ exit_msg' = result.exit
              /\ pc' = IF result.exit = NoExit THEN "open" ELSE "exit"
    /\ UNCHANGED <<data, parent_dir, archive, zf, names, idx, os_error, stdout>>

\* build: ZipFile(out_path, "w") creates or truncates the file
OpenZip ==
    /\ pc = "open"
    /\ archive' = [exists |-> TRUE, entries |-> <<>>, fresh |-> TRUE]
    /\ zf' = "w"
    /\ idx' = 1
    /\ pc' = "write"
    /\ UNCHANGED <<data, git_out, files, parent_dir, names, exit_msg, os_error,
                   stdout>>

\* build: one zf.write of the loop. ROOT / rel may be unreadable (a tracked
\* file deleted from the working tree): the OSError leaves the `with` block,
\* which closes the archive with the entries written so far.
ZipWrite ==
    /\ pc = "write"
    /\ idx <= Len(files)
    /\ \E readable \in BOOLEAN :
          IF readable
          THEN /\ archive' = [archive EXCEPT !.entries = zf_write(@, files[idx])]
               /\ idx' = idx + 1
               /\ UNCHANGED <<zf, os_error, pc>>
          ELSE /\ zf' = "closed"
               /\ os_error' = TRUE
               /\ pc' = "exit"
               /\ UNCHANGED <<archive, idx>>
    /\ UNCHANGED <<data, git_out, files, parent_dir, names, exit_msg, stdout>>

\* build: the loop is over and the `with` block closes the archive
ZipClose ==
    /\ pc = "write"
    /\ idx > Len(files)
    /\ zf' = "closed"
    /\ pc' = "verify"
    /\ UNCHANGED <<data, git_out, files, parent_dir, archive, names, idx, exit_msg,
                   os_error, stdout>>

\* build: read the names back and look for the three required entries
VerifyArchive ==
    /\ pc = "verify"
    /\ names' = Range(archive.entries)
    /\ LET absent == SelectSeq(verified_entries,
                               LAMBDA req : req \notin Range(archive.entries))
       IN  IF absent # <<>>
           THEN /\ exit_msg' = SystemExit("Generated archive is missing ",
                                          <<absent[1]>>)
                /\ pc' = "exit"
           ELSE /\ exit_msg' = exit_msg
                /\ pc' = "report"
    /\ UNCHANGED <<data, git_out, files, parent_dir, archive, zf, idx, os_error,
                   stdout>>

\* build: print the success line
Report ==
    /\ pc = "report"
    /\ stdout' = Append(stdout, CreatedLine(DEFAULT_OUT, files))
    /\ pc' = "done"
    /\ UNCHANGED <<data, git_out, files, parent_dir, archive, zf, names, idx,
                   exit_msg, os_error>>

Next ==
    \/ ValidateManifest
    \/ Mkdir
    \/ TrackedFiles
    \/ OpenZip
    \/ ZipWrite
    \/ ZipClose
    \/ VerifyArchive
    \/ Report

Spec == Init /\ [][Next]_vars

(***************************************************************************)
(* Properties.                                                             *)
(***************************************************************************)
MissingFilesText == "Missing required package files: "
MissingKeysText == "manifest.json missing required keys: "
IntegerMessage(key) ==
    SystemExit("manifest.json: '" \o key \o "' must be an integer", <<>>)

\* the run has ended
Ended == pc \in {"done", "exit"}

\* validate_manifest has just run on `data`
Validated == data # NoData

\* tracked_files has run on `git_out`
Listed == git_out # NoOutput

\* tracked_files has run and returned
Selected == Listed /\ exit_msg.text # MissingFilesText

\* the archive at out_path is as it was before the run
ArchiveUntouched ==
    /\ archive \in {NoArchive, OldArchive}
    /\ ~archive.fresh
    /\ zf = "closed"

\* a path the selection policy excludes
IsExcludedPath(path) ==
    \/ path = tool_py
    \/ \E i \in 1..Len(excluded_prefixes) : StartsWith(path, excluded_prefixes[i])

\* the tracked paths the selection policy keeps
KeptPaths == {path \in Range(ListedFiles(git_out)) : ~IsExcludedPath(path)}

\* d has every required key
HasAllKeys(d) == Range(required_keys) \subseteq DOMAIN d

\* a JSON integer: an int that is no boolean
StrictInt(v) == v.t = "int"

\* a string that is non-empty after trimming
NonEmptyText(v) == v.t = "str" /\ \E i \in 1..Len(v.s) : v.s[i] \notin Whitespace

\* every key of d other than `except` holds a value of its type
WellTyped(d, except) ==
    /\ HasAllKeys(d)
    /\ "package" = except \/ NonEmptyText(d["package"])
    /\ "name" = except \/ NonEmptyText(d["name"])
    /\ "conflicts" = except \/ d["conflicts"].t = "list"
    /\ \A key \in Range(int_keys) : key = except \/ StrictInt(d[key])

\* C1: when the run ends, the archive at the output path is absent, or is the
\* one the run found there, or is complete (every selected file is an entry)
\* and has passed the verification of the required entries.
NoPartialSuccess ==
    Ended =>
        \/ ~archive.exists
        \/ ~archive.fresh
        \/ /\ pc = "done"
           /\ Range(archive.entries) = Range(files)
           /\ required_files \subseteq names

\* C2: a manifest whose other keys are well typed and in which an integer key
\* holds a value that is no JSON integer fails with "'<key>' must be an
\* integer"; one whose conflicts value is no list fails with the conflicts
\* message.
NonIntegerRejected ==
    Validated =>
        /\ \A key \in Range(int_keys) :
              (WellTyped(data, key) /\ ~StrictInt(data[key]))
                  => (pc = "exit" /\ exit_msg = IntegerMessage(key))
        /\ (WellTyped(data, "conflicts") /\ data["conflicts"].t # "list")
              => /\ pc = "exit"
                 /\ exit_msg = SystemExit("manifest.json: 'conflicts' must be a list",
                                          <<>>)

\* C3: for every listing that names meta.json and __init__.py, tracked_files
\* returns and its result contains manifest.json.
ManifestAlwaysSelected ==
    (Listed /\ {meta_json, init_py} \subseteq Range(ListedFiles(git_out)))
        => (Selected /\ manifest_json \in Range(files))

\* C4: the list tracked_files returns holds exactly the tracked paths that
\* are neither the tool's own file nor under an excluded directory.
ExcludedNeverSelected ==
    Selected =>
        /\ \A path \in Range(ListedFiles(git_out)) :
              IsExcludedPath(path) => path \notin Range(files)
        /\ \A path \in Range(ListedFiles(git_out)) :
              ~IsExcludedPath(path) => path \in Range(files)
        /\ Range(files) \subseteq Range(ListedFiles(git_out))

ExcludedNeverSelectedWitness ==
    /\ Selected
    /\ pc = "open"
    /\ tool_py \in Range(ListedFiles(git_out))

\* C5: when validate_manifest fails, or the selection lacks a required file,
\* the run ends in failure with the archive never opened and the file at the
\* output path as it was; the missing-files message names every missing
\* required file and no other.
ConfigErrorAbortsBeforeWrite ==
    /\ (Validated /\ pc = "exit")
          => (ArchiveUntouched /\ stdout = <<>> /\ exit_msg # NoExit)
    /\ (Listed /\ ~(required_files \subseteq KeptPaths))
          => /\ pc = "exit"
             /\ ArchiveUntouched
             /\ stdout = <<>>
             /\ exit_msg.text = MissingFilesText
             /\ Range(exit_msg.names) = required_files \ KeptPaths

ConfigErrorAbortsBeforeWriteWitness ==
    /\ Listed
    /\ pc = "exit"
    /\ meta_json \notin KeptPaths
    /\ manifest_json \in KeptPaths
    /\ archive = OldArchive

\* C6: a manifest that lacks required keys fails with the missing-keys
\* message, which names each missing key once and no key that is present.
MissingKeysAllNamed ==
    (Validated /\ ~HasAllKeys(data)) =>
        /\ pc = "exit"
        /\ exit_msg.text = MissingKeysText
        /\ Range(exit_msg.names) = Range(required_keys) \ DOMAIN data
        /\ Len(exit_msg.names) = Cardinality(Range(required_keys) \ DOMAIN data)

MissingKeysAllNamedWitness ==
    /\ Validated
    /\ pc = "exit"
    /\ Cardinality(Range(required_keys) \ DOMAIN data) = 2

\* C7: after a successful build the archive holds exactly the list that
\* tracked_files returned, each path once, the three required entries among
\* them, and the success line reports the number of entries.
ArchiveHoldsSelection ==
    pc = "done" =>
        /\ archive.exists
        /\ Range(archive.entries) = Range(files)
        /\ Len(archive.entries) = Cardinality(Range(archive.entries))
        /\ required_files \subseteq Range(archive.entries)
        /\ stdout = << "Created " \o DEFAULT_OUT \o " ("
                       \o ToString(Len(archive.entries)) \o " files)" >>

ArchiveHoldsSelectionWitness ==
    /\ pc = "done"
    /\ Len(archive.entries) = 4
    /\ stdout = <<"Created dist/Beautify-Anki_2.0-addon.zip (4 files)">>

\* C8: the list tracked_files returns is strictly ascending in code-point
\* order, hence free of duplicates, and holds the three required files.
SelectionSortedAndComplete ==
    Selected =>
        /\ \A i \in 1..(Len(files) - 1) : StrLess(files[i], files[i + 1])
        /\ required_files \subseteq Range(files)

SelectionSortedAndCompleteWitness ==
    /\ Selected
    /\ pc = "open"
    /\ Len(SplitLines(git_out)) = 4
    /\ Len(files) = 3
    /\ ListedFiles(git_out)[1] = meta_json

\* C9: a manifest with all seven keys well typed passes validation exactly
\* when mod > 0 and min_point_version <= max_point_version; mod <= 0 fails
\* with the mod message; a passed validation raises nothing and leaves the
\* output path, the selection and the output untouched.
WellTypedValidIff ==
    (Validated /\ WellTyped(data, "")) =>
        /\ pc = "validated"
              <=> /\ data["mod"].n > 0
                  /\ data["min_point_version"].n <= data["max_point_version"].n
        /\ data["mod"].n <= 0
              => exit_msg = SystemExit("manifest.json: 'mod' must be > 0", <<>>)
        /\ data["min_point_version"].n > data["max_point_version"].n
              => pc = "exit"
        /\ pc = "validated"
              => /\ exit_msg = NoExit
                 /\ ArchiveUntouched
                 /\ files = <<>>
                 /\ stdout = <<>>

WellTypedValidIffWitness ==
    /\ Validated
    /\ pc = "validated"
    /\ data["min_point_version"] = data["max_point_version"]

\* rule n of the validation sequence is violated by d
Violates(d, n) ==
    CASE n = 1 -> ~HasAllKeys(d)
      [] n = 2 -> "package" \in DOMAIN d /\ ~NonEmptyText(d["package"])
      [] n = 3 -> "name" \in DOMAIN d /\ ~NonEmptyText(d["name"])
      [] n = 4 -> "conflicts" \in DOMAIN d /\ d["conflicts"].t # "list"
      [] n = 5 -> \E key \in Range(int_keys) \cap DOMAIN d : ~StrictInt(d[key])
      [] n = 6 -> "mod" \in DOMAIN d /\ d["mod"].t \in {"int", "bool", "float"}
                  /\ d["mod"].n <= 0
      [] n = 7 -> /\ {"min_point_version", "max_point_version"} \subseteq DOMAIN d
                  /\ d["min_point_version"].t \in {"int", "bool", "float"}
                  /\ d["max_point_version"].t \in {"int", "bool", "float"}
                  /\ d["min_point_version"].n > d["max_point_version"].n

\* the message of rule n for d
RuleMessage(d, n) ==
    CASE n = 1 -> SystemExit(MissingKeysText,
                             SelectSeq(required_keys, LAMBDA k : k \notin DOMAIN d))
      [] n = 2 -> SystemExit("manifest.json: 'package' must be a non-empty string", <<>>)
      [] n = 3 -> SystemExit("manifest.json: 'name' must be a non-empty string", <<>>)
      [] n = 4 -> SystemExit("manifest.json: 'conflicts' must be a list", <<>>)
      [] n = 5 -> IntegerMessage(
                      SelectSeq(int_keys,
                                LAMBDA k : k \in DOMAIN d /\ ~StrictInt(d[k]))[1])
      [] n = 6 -> SystemExit("manifest.json: 'mod' must be > 0", <<>>)
      [] n = 7 -> SystemExit(
                      "manifest.json: min_point_version must be <= max_point_version",
                      <<>>)

\* C10: a manifest that violates several rules fails with the message of the
\* lowest-numbered rule it violates.
FirstViolationReported ==
    LET violated == {n \in 1..7 : Violates(data, n)}
    IN  (Validated /\ Cardinality(violated) >= 2)
            => (pc = "exit" /\ exit_msg = RuleMessage(data, Min(violated)))

====
